---- MODULE Spec2Model ----
(***************************************************************************)
(* Model of the hexgrid crate (src/src/lib.rs): compass directions, axial  *)
(* (HexCoord) and cube (HexCubeCoord) coordinates, their conversions,      *)
(* neighbor stepping, hex distance and the Cartesian projection.           *)
(*                                                                         *)
(* The numeric parameter T is modelled by the mathematical integers:       *)
(* the library leaves overflow to T.  Floating-point results of the        *)
(* projection are modelled exactly, in units of (1/4, sqrt(3)/4).          *)
(***************************************************************************)
EXTENDS Integers, Sequences, FiniteSets

VARIABLES
    \* walk machine: an axial and a cube walker taking the same steps
    start, cur, cstart, ccur, walk, dist, center, prevCenter,
    \* value pipeline: one value pushed through the conversions/constructors
    origin, prev, val, ops,
    \* metric harness: three cells and the distances measured among them
    a, b, c, measured

walkVars == <<start, cur, cstart, ccur, walk, dist, center, prevCenter>>
apiVars == <<origin, prev, val, ops>>
metricVars == <<a, b, c, measured>>
vars == <<walkVars, apiVars, metricVars>>

(***************************** bounds **************************************)
MaxCoord == 2
MaxWalk == 4
MaxOps == 3
MaxIndex == 7

CoordRange == (0 - MaxCoord)..MaxCoord

(***************************** Direction ***********************************)
\* enum Direction, in declaration order
Direction == {"NE", "N", "NW", "SW", "S", "SE"}

\* the discriminant of each variant (declaration order, from 0)
Discriminant == [d \in Direction |->
    CASE d = "NE" -> 0
      [] d = "N" -> 1
      [] d = "NW" -> 2
      [] d = "SW" -> 3
      [] d = "S" -> 4
      [] d = "SE" -> 5]

\* Result<T, E>
Ok(v) == [ok |-> TRUE, v |-> v]
Err(e) == [ok |-> FALSE, v |-> e]

\* const DIRNS inside try_from (indexed from 1 here, from 0 in the source)
DIRNS == <<"N", "NW", "SW", "S", "SE", "NE">>

\* a try_from whose range check is off by one
Direction_try_from_offbyone(d) ==
    IF d >= Len(DIRNS) - 1 THEN Err(d) ELSE Ok(DIRNS[d + 1])

\* impl TryFrom<usize> for Direction; the error is DirectionError(d)
Direction_try_from(d) ==
    IF d >= Len(DIRNS) THEN Err(d) ELSE Ok(DIRNS[d + 1])

\* impl From<Direction> for usize: d as usize
usize_from(d) == Discriminant[d]

(***************************** HexCoord ************************************)
HexCoord_new(q, r) == [q |-> q, r |-> r]

\* a neighbor table mixing in the NW offset of another axis convention
HexCoord_neighbor_mixed(self, d) ==
    CASE d = "NE" -> HexCoord_new(self.q + 1, self.r + 1)
      [] d = "N" -> HexCoord_new(self.q, self.r + 1)
      [] d = "NW" -> HexCoord_new(self.q - 1, self.r + 1)
      [] d = "SW" -> HexCoord_new(self.q - 1, self.r - 1)
      [] d = "S" -> HexCoord_new(self.q, self.r - 1)
      [] d = "SE" -> HexCoord_new(self.q + 1, self.r)

HexCoord_neighbor(self, d) ==
    CASE d = "NE" -> HexCoord_new(self.q + 1, self.r + 1)
      [] d = "N" -> HexCoord_new(self.q, self.r + 1)
      [] d = "NW" -> HexCoord_new(self.q - 1, self.r)
      [] d = "SW" -> HexCoord_new(self.q - 1, self.r - 1)
      [] d = "S" -> HexCoord_new(self.q, self.r - 1)
      [] d = "SE" -> HexCoord_new(self.q + 1, self.r)

\* a projection with y growing downward (screen convention)
cartesian_center_ydown(self) ==
    <<3 * self.q, self.q - 2 * self.r>>

\* cartesian_center, exactly: x = 0.75*q counted in quarters is 3q;
\* y = -(0.5*sqrt3) * (0.5*q - r) counted in units of sqrt3/4 is -(q - 2r)
cartesian_center(self) ==
    <<3 * self.q, 0 - (self.q - 2 * self.r)>>

(***************************** HexCubeCoord ********************************)
HexCubeCoord_new_unchecked(x, y, z) == [x |-> x, y |-> y, z |-> z]

\* a constructor that forgets the z term of the invariant
HexCubeCoord_new_noz(x, y, z) ==
    IF x + y = 0
    THEN Ok([x |-> x, y |-> y, z |-> z])
    ELSE Err([x |-> x, y |-> y, z |-> z])

\* the error is CubeInvariantError { x, y, z }
HexCubeCoord_new(x, y, z) ==
    IF x + y + z = 0
    THEN Ok([x |-> x, y |-> y, z |-> z])
    ELSE Err([x |-> x, y |-> y, z |-> z])

coords(self) == <<self.x, self.y, self.z>>

abs_diff(p, q) == IF p <= q THEN q - p ELSE p - q

\* a distance that drops the z difference
HexCubeCoord_distance_noz(self, o) ==
    LET x == abs_diff(self.x, o.x)
        y == abs_diff(self.y, o.y)
    IN (x + y) \div 2

\* the operands of / are never negative, so T's division is \div
HexCubeCoord_distance(self, o) ==
    LET x == abs_diff(self.x, o.x)
        y == abs_diff(self.y, o.y)
        z == abs_diff(self.z, o.z)
    IN (x + y + z) \div 2

\* an Axial -> Cube conversion with a sign slip in y
HexCubeCoord_from_signslip(h) ==
    HexCubeCoord_new_unchecked(h.q, (0 - h.q) + h.r, h.r)

\* impl From<HexCoord<T>> for HexCubeCoord<T>
HexCubeCoord_from(h) ==
    LET y == 0 - h.q - h.r
    IN HexCubeCoord_new_unchecked(h.q, y, h.r)

\* a Cube -> Axial conversion that checks the invariant first
HexCoord_from_checked(k) ==
    IF k.x + k.y + k.z = 0 THEN Ok(HexCoord_new(k.x, k.z)) ELSE Err(k)

\* impl From<HexCubeCoord<T>> for HexCoord<T>: infallible, so always Ok
HexCoord_from(k) == Ok(HexCoord_new(k.x, k.z))

HexCubeCoord_neighbor(self, d) ==
    HexCubeCoord_from(HexCoord_neighbor(HexCoord_from(self).v, d))

HexCoord_distance(self, o) ==
    HexCubeCoord_distance(HexCubeCoord_from(self), HexCubeCoord_from(o))

(***************************** walk machine ********************************)
\* the direction sequence of test_neighbor_axial and test_neighbor_cube
TestWalk == <<"N", "SW", "S", "SE", "NE", "N", "NW", "S">>

\* walks are all sequences up to MaxWalk steps, and the tests' walk
CanStep(d) ==
    \/ Len(walk) < MaxWalk
    \/ /\ Len(walk) < Len(TestWalk)
       /\ Append(walk, d) = SubSeq(TestWalk, 1, Len(walk) + 1)

WalkInit ==
    /\ \/ \E x, y, z \in CoordRange :
             /\ HexCubeCoord_new(x, y, z).ok
             /\ cstart = HexCubeCoord_new(x, y, z).v
       \/ \E q, r \in CoordRange :
             cstart = HexCubeCoord_from(HexCoord_new(q, r))
    /\ start = HexCoord_from(cstart).v
    /\ cur = start
    /\ ccur = cstart
    /\ walk = <<>>
    /\ dist = HexCoord_distance(start, start)
    /\ center = cartesian_center(start)
    /\ prevCenter = cartesian_center(start)

\* one neighbor() step of both walkers, then distance and projection
Step(d) ==
    /\ CanStep(d)
    /\ cur' = HexCoord_neighbor(cur, d)
    /\ ccur' = HexCubeCoord_neighbor(ccur, d)
    /\ walk' = Append(walk, d)
    /\ dist' = HexCoord_distance(start, cur')
    /\ prevCenter' = center
    /\ center' = cartesian_center(cur')
    /\ UNCHANGED <<start, cstart>>

\* Cube -> Axial -> Cube on the cube walker
Reconvert ==
    /\ ccur' = HexCubeCoord_from(HexCoord_from(ccur).v)
    /\ UNCHANGED <<start, cur, cstart, walk, dist, center, prevCenter>>

WalkIdle ==
    /\ start = HexCoord_new(0, 0)
    /\ cur = start
    /\ cstart = HexCubeCoord_from(start)
    /\ ccur = cstart
    /\ walk = <<>>
    /\ dist = 0
    /\ center = <<0, 0>>
    /\ prevCenter = <<0, 0>>

(***************************** value pipeline ******************************)
\* a value with the name of its Rust type
Tag(t, v) == [type |-> t, v |-> v]
None == Tag("none", 0)

\* usize inputs: 0..MaxIndex and the 100 of the specification's example
Indices == (0..MaxIndex) \cup {100}

ApiInit ==
    /\ \/ \E d \in Direction : origin = Tag("Direction", d)
       \/ \E i \in Indices : origin = Tag("usize", i)
       \/ \E q, r \in CoordRange : origin = Tag("HexCoord", HexCoord_new(q, r))
       \/ \E x, y, z \in CoordRange : origin = Tag("triple", <<x, y, z>>)
    /\ val = origin
    /\ prev = None
    /\ ops = <<>>

Apply(op, result) ==
    /\ Len(ops) < MaxOps
    /\ prev' = val
    /\ val' = result
    /\ ops' = Append(ops, op)
    /\ UNCHANGED origin

\* usize::from(direction)
ToIndex ==
    /\ val.type = "Direction"
    /\ Apply("usize_from", Tag("usize", usize_from(val.v)))

\* Direction::try_from(index)
FromIndex ==
    /\ val.type = "usize"
    /\ LET res == Direction_try_from(val.v)
       IN Apply("try_from",
                IF res.ok THEN Tag("Direction", res.v)
                ELSE Tag("DirectionError", res.v))

\* HexCubeCoord::new(x, y, z)
New ==
    /\ val.type = "triple"
    /\ LET res == HexCubeCoord_new(val.v[1], val.v[2], val.v[3])
       IN Apply("new",
                IF res.ok THEN Tag("HexCubeCoord", res.v)
                ELSE Tag("CubeInvariantError", res.v))

\* HexCubeCoord::new_unchecked(x, y, z)
NewUnchecked ==
    /\ val.type = "triple"
    /\ Apply("new_unchecked",
             Tag("HexCubeCoord",
                 HexCubeCoord_new_unchecked(val.v[1], val.v[2], val.v[3])))

\* cube.coords()
Coords ==
    /\ val.type = "HexCubeCoord"
    /\ Apply("coords", Tag("triple", coords(val.v)))

\* HexCoord::from(cube)
ToAxial ==
    /\ val.type = "HexCubeCoord"
    /\ LET res == HexCoord_from(val.v)
       IN Apply("hex_from",
                IF res.ok THEN Tag("HexCoord", res.v)
                ELSE Tag("CubeInvariantError", res.v))

\* HexCubeCoord::from(hex)
ToCube ==
    /\ val.type = "HexCoord"
    /\ Apply("cube_from", Tag("HexCubeCoord", HexCubeCoord_from(val.v)))

ApiIdle ==
    /\ origin = None
    /\ prev = None
    /\ val = None
    /\ ops = <<>>

(***************************** metric harness ******************************)
\* the pairs measured, in order
Pairs == <<"aa", "ab", "ba", "bc", "ac">>

PairAt(k) ==
    CASE Pairs[k] = "aa" -> <<a, a>>
      [] Pairs[k] = "ab" -> <<a, b>>
      [] Pairs[k] = "ba" -> <<b, a>>
      [] Pairs[k] = "bc" -> <<b, c>>
      [] Pairs[k] = "ac" -> <<a, c>>

\* the checked cube coordinate of an axial cell
CubeOf(h) == HexCubeCoord_new(h.q, 0 - h.q - h.r, h.r).v

MetricInit ==
    /\ a \in {HexCoord_new(q, r) : q, r \in CoordRange}
    /\ b \in {HexCoord_new(q, r) : q, r \in CoordRange}
    /\ c \in {HexCoord_new(q, r) : q, r \in CoordRange}
    /\ measured = <<>>

\* measure the next pair, on the axial and on the cube representation
Measure ==
    /\ Len(measured) < Len(Pairs)
    /\ LET pq == PairAt(Len(measured) + 1)
       IN measured' = Append(measured,
              [hex |-> HexCoord_distance(pq[1], pq[2]),
               cube |-> HexCubeCoord_distance(CubeOf(pq[1]), CubeOf(pq[2]))])
    /\ UNCHANGED <<a, b, c>>

MetricIdle ==
    /\ a = HexCoord_new(0, 0)
    /\ b = a
    /\ c = a
    /\ measured = <<>>

(***************************** specifications ******************************)
Init == WalkInit /\ ApiIdle /\ MetricIdle

Next ==
    \/ (\E d \in Direction : Step(d)) /\ UNCHANGED <<apiVars, metricVars>>
    \/ Reconvert /\ UNCHANGED <<apiVars, metricVars>>

Spec == Init /\ [][Next]_vars

InitApi == ApiInit /\ WalkIdle /\ MetricIdle

NextApi ==
    \/ ToIndex /\ UNCHANGED <<walkVars, metricVars>>
    \/ FromIndex /\ UNCHANGED <<walkVars, metricVars>>
    \/ New /\ UNCHANGED <<walkVars, metricVars>>
    \/ NewUnchecked /\ UNCHANGED <<walkVars, metricVars>>
    \/ Coords /\ UNCHANGED <<walkVars, metricVars>>
    \/ ToAxial /\ UNCHANGED <<walkVars, metricVars>>
    \/ ToCube /\ UNCHANGED <<walkVars, metricVars>>

SpecApi == InitApi /\ [][NextApi]_vars

InitMetric == MetricInit /\ WalkIdle /\ ApiIdle

NextMetric == Measure /\ UNCHANGED <<walkVars, apiVars>>

SpecMetric == InitMetric /\ [][NextMetric]_vars

(***************************** walk claims *********************************)
RECURSIVE Ball(_, _)
\* the cells reachable from h in at most k neighbor() steps
Ball(h, k) ==
    IF k = 0 THEN {h}
    ELSE LET B == Ball(h, k - 1)
         IN B \cup {HexCoord_neighbor(p, d) : p \in B, d \in Direction}

\* the least number of neighbor() steps from p to q (q is within Len(walk))
MinSteps(p, q) ==
    CHOOSE k \in 0..Len(walk) :
        /\ q \in Ball(p, k)
        /\ \A j \in 0..(k - 1) : q \notin Ball(p, j)

\* C1: distance(start, cur) is the minimum number of single neighbor()
\* steps from start to cur; so a neighbor is at distance 1 and only
\* neighbors are at distance 1.
C1_DistanceIsMinSteps == dist = MinSteps(start, cur)

Count(d) == Cardinality({i \in 1..Len(walk) : walk[i] = d})

Balanced ==
    /\ Count("NE") = Count("SW")
    /\ Count("N") = Count("S")
    /\ Count("NW") = Count("SE")

\* C6: after a walk in which every direction occurs as often as its compass
\* opposite, the axial walker and the cube walker are back at their starts.
C6_ClosedWalk == Balanced => (cur = start /\ ccur = cstart)

C6_Witness == walk = TestWalk /\ cur = start /\ ccur = cstart

\* the claimed center offsets, in units of (1/4, sqrt3/4)
CompassOffset == [d \in Direction |->
    CASE d = "NE" -> <<3, 1>>
      [] d = "N" -> <<0, 2>>
      [] d = "NW" -> <<-3, 1>>
      [] d = "SW" -> <<-3, -1>>
      [] d = "S" -> <<0, -2>>
      [] d = "SE" -> <<3, -1>>]

\* C9: the center of (q, r) is (3q, 2r - q) in units of (1/4, sqrt3/4); a
\* neighbor() step in direction d moves the center by the compass offset of
\* d; the center of the origin is (0, 0).
C9_NeighborProjection ==
    /\ center = <<3 * cur.q, 2 * cur.r - cur.q>>
    /\ walk # <<>> =>
          <<center[1] - prevCenter[1], center[2] - prevCenter[2]>>
              = CompassOffset[walk[Len(walk)]]
    /\ cur = HexCoord_new(0, 0) => center = <<0, 0>>

C9_Witness ==
    /\ Len(walk) = 2
    /\ walk[2] = "NW"
    /\ cur = HexCoord_new(0, 0)
    /\ prevCenter = <<3, -1>>

(***************************** pipeline claims *****************************)
LastOp == IF ops = <<>> THEN "" ELSE ops[Len(ops)]

C4_IndexRoundTrip ==
    (origin.type = "Direction" /\ ops = <<"usize_from", "try_from">>) =>
        (val.type = "Direction" /\ val.v = origin.v)

\* C5: new(x, y, z) is Ok holding exactly (x, y, z) iff x + y + z = 0, and
\* otherwise Err whose fields are exactly the rejected arguments.
C5_NewChecked ==
    LastOp = "new" =>
        IF prev.v[1] + prev.v[2] + prev.v[3] = 0
        THEN val.type = "HexCubeCoord" /\ coords(val.v) = prev.v
        ELSE /\ val.type = "CubeInvariantError"
             /\ <<val.v.x, val.v.y, val.v.z>> = prev.v

C5_Witness ==
    /\ ops = <<"new">>
    /\ origin.v = <<1, 1, 1>>
    /\ val.type = "CubeInvariantError"
    /\ val.v = [x |-> 1, y |-> 1, z |-> 1]

\* C8: Axial -> Cube gives (x, y, z) = (q, -q-r, r), and Axial -> Cube ->
\* Axial gives back the axial coordinate.
C8_AxialRoundTrip ==
    /\ LastOp = "cube_from" =>
          val.v = [x |-> prev.v.q, y |-> 0 - prev.v.q - prev.v.r, z |-> prev.v.r]
    /\ (origin.type = "HexCoord" /\ ops = <<"cube_from", "hex_from">>) =>
          (val.type = "HexCoord" /\ val.v = origin.v)

C8_Witness ==
    /\ origin.type = "HexCoord"
    /\ ops = <<"cube_from", "hex_from">>
    /\ origin.v = HexCoord_new(1, -2)
    /\ prev.v = [x |-> 1, y |-> 1, z |-> -2]
    /\ val.v = origin.v

\* C10: try_from(i) is Err(DirectionError(i)) for every i >= 6 and Ok of a
\* direction for every i in 0..5; nothing else yields a DirectionError.
C10_TryFromRange ==
    /\ LastOp = "try_from" =>
          IF prev.v >= 6
          THEN val.type = "DirectionError" /\ val.v = prev.v
          ELSE val.type = "Direction" /\ val.v \in Direction
    /\ val.type = "DirectionError" => LastOp = "try_from"

C10_Witness ==
    /\ ops = <<"try_from">>
    /\ origin.v = 100
    /\ val.type = "DirectionError"
    /\ val.v = 100

(***************************** metric claims *******************************)
\* C7: distance(a, a) = 0, distance(a, b) = distance(b, a) and
\* distance(a, c) <= distance(a, b) + distance(b, c), on axial and on cube
\* coordinates; the cube cells (0,0,0) and (-1,3,-2) are at distance 3.
C7_MetricLaws ==
    /\ Len(measured) >= 1 => measured[1] = [hex |-> 0, cube |-> 0]
    /\ Len(measured) >= 3 => measured[2] = measured[3]
    /\ Len(measured) >= 5 =>
          /\ measured[5].hex <= measured[2].hex + measured[4].hex
          /\ measured[5].cube <= measured[2].cube + measured[4].cube
    /\ (Len(measured) >= 2 /\ coords(CubeOf(a)) = <<0, 0, 0>>
          /\ coords(CubeOf(b)) = <<-1, 3, -2>>) => measured[2].cube = 3

C7_Witness ==
    /\ Len(measured) = 5
    /\ coords(CubeOf(a)) = <<0, 0, 0>>
    /\ coords(CubeOf(b)) = <<-1, 3, -2>>
    /\ c = HexCoord_new(1, 2)
    /\ measured[2].cube = 3
    /\ measured[5].hex < measured[2].hex + measured[4].hex

====
